---- MODULE Spec2Model ----
(***************************************************************************)
(* A model of the fixed-size thread pool of src/src/thread_pool.cpp: the   *)
(* two constructors, the worker lambda (start hook, pull-execute loop),    *)
(* the destructor, and the submission primitive Enqueue with its one-shot  *)
(* result channel (std::future).  thread_pool.h is not part of src/, so    *)
(* Enqueue and the task wrapper are modelled from spec.md 4.3 and from the *)
(* way the tests use them.                                                 *)
(*                                                                         *)
(* Threads: the caller (the thread that owns the pool: it constructs,      *)
(* submits, reads handles and destroys) and the workers 1..num_threads.    *)
(* The mutex m_task_ is explicit: every critical section is an acquire     *)
(* step followed by a step that does the section's work and releases.      *)
(* The condition variable cv_task_ is the set of workers whose pc is       *)
(* "waiting"; a notified (or spuriously woken) worker goes back to         *)
(* re-acquire the mutex and re-evaluate the wait predicate.                *)
(***************************************************************************)
EXTENDS Integers, Sequences, FiniteSets

\* ---------------------------------------------------------------- bounds
MaxThreads == 2
MaxTasks == 2
MaxLen == 3

Workers == 1..MaxThreads
TaskIds == 1..MaxTasks
Elems == 1..MaxLen

\* The caller thread's id as a mutex owner (workers are 1..MaxThreads).
Caller == 0

VARIABLES
    ctor,           \* "new" | "spawning" | "ready" | "threw"
    viaDefault,     \* the zero-argument constructor was used
    num_threads,    \* num_threads_
    spawned,        \* threads_.size() while the constructor's loop runs
    hasStart,       \* on_thread_start is non-empty
    hasStop,        \* on_thread_stop is non-empty
    startCalls,     \* invocations of on_thread_start
    stopCalls,      \* invocations of on_thread_stop
    wpc,            \* worker -> "none" | "start" | "lock" | "locked" | "waiting" | "running" | "exited"
                    \* (a task that submits: "n_push" | "n_notify" | "blocked" | "finishing")
    cur,            \* worker -> the task held in its local `task` (0: none)
    mutex,          \* the set of owners of m_task_ (empty or one thread)
    tasks,          \* tasks_: FIFO of task ids
    is_terminated,  \* is_terminated_
    mpc,            \* the caller's position
    joined,         \* threads joined so far by the destructor
    nsub,           \* tasks submitted so far (task ids are 1..nsub)
    kind,           \* task -> "value" | "throw" ("none" before submission)
    inner,          \* task -> the task its body has submitted (0: none)
    chan,           \* task -> its result channel
    got,            \* task -> what the read of its handle returned
    execCount,      \* task -> times its body has run
    pendingAtStop,  \* Len(tasks_) + in-flight tasks when the flag was set (-1 before)
    idleAtStop,     \* workers blocked in the wait when the flag was set (-1 before)
    algo            \* the ForEach / TransformReduce call in progress, its range and result

vars == <<ctor, viaDefault, num_threads, spawned, hasStart, hasStop, startCalls,
          stopCalls, wpc, cur, mutex, tasks, is_terminated, mpc, joined, nsub,
          kind, inner, chan, got, execCount, pendingAtStop, idleAtStop, algo>>

poolVars == <<wpc, cur, mutex, tasks, is_terminated>>
ctorVars == <<ctor, viaDefault, num_threads, spawned, hasStart, hasStop>>
hookVars == <<startCalls, stopCalls>>
taskVars == <<nsub, kind, inner, chan, got, execCount>>
ghostVars == <<pendingAtStop, idleAtStop>>

\* ------------------------------------------------------- result channels
Pending == [st |-> "pending", v |-> 0]
NoChan == [st |-> "none", v |-> 0]
Unread == [st |-> "unread", v |-> 0]

\* The i-th submission passes i as its argument (EnqueueMultipleTasks).
ArgOf(i) == i

\* The callable of the tests: [](int x) { return x * 2; }.
Callable(x) == x * 2

\* ------------------------------------------- ForEach / TransformReduce data
\* No call in progress.
NoAlgo ==
    [op |-> "none", pc |-> "none", len |-> 0, fails |-> {}, rfn |-> "none",
     init |-> 0, chunks |-> <<>>, base |-> 0, waited |-> 0,
     applied |-> [e \in Elems |-> 0], result |-> 0, raised |-> 0, firstFailed |-> 0,
     firstDone |-> 0]

Min(S) == CHOOSE x \in S : \A y \in S : x <= y

\* Mutant of ChunkSize: the remainder goes to the last chunk.
ChunkSizeRemainderLast(L, k, c) == (L \div k) + (IF c = k THEN L % k ELSE 0)

\* The size of chunk c of k: sizes differ by at most one, the earlier chunks
\* absorb the remainder.
ChunkSize(L, k, c) == (L \div k) + (IF c <= L % k THEN 1 ELSE 0)

RECURSIVE ChunkStart(_, _, _)
\* The first element of chunk c: chunks are contiguous from element 1.
ChunkStart(L, k, c) == IF c = 1 THEN 1 ELSE ChunkStart(L, k, c - 1) + ChunkSize(L, k, c - 1)

\* The partition of a range of length L for n workers: min(n, L) chunks
\* <<first, last>>, none for an empty range.
Partition(L, n) ==
    LET k == IF n < L THEN n ELSE L
    IN  [c \in 1..k |-> <<ChunkStart(L, k, c), ChunkStart(L, k, c) + ChunkSize(L, k, c) - 1>>]

\* reduceFn: integer addition, integer subtraction (not associative), ordered
\* concatenation (associative, not commutative).
Reduce(rfn, a, b) ==
    CASE rfn = "add" -> a + b
      [] rfn = "sub" -> a - b
      [] rfn = "concat" -> a \o b

\* transformFn: x * x on integers (TransformReduceSumOfSquares), a one-word
\* string for the concatenation (TransformReduceWithCustomTypes).
Transform(rfn, e) == IF rfn = "concat" THEN <<e>> ELSE e * e

\* The initial accumulators tried: the identity and a value that is not.
Inits(rfn) == IF rfn = "concat" THEN {<<>>, <<0>>} ELSE {0, 1}

RECURSIVE Fold(_, _, _, _)
\* The left fold of reduceFn over transformFn(e) for e = lo..hi, from acc.
Fold(rfn, acc, lo, hi) ==
    IF lo > hi THEN acc ELSE Fold(rfn, Reduce(rfn, acc, Transform(rfn, lo)), lo + 1, hi)

\* Mutant of ChunkPartial: every chunk starts its fold from init.
ChunkPartialFromInit(lo, hi) == Fold(algo.rfn, algo.init, lo, hi)

\* The local fold of a chunk: from its first transformed element, over the
\* rest in ascending order.
ChunkPartial(lo, hi) == Fold(algo.rfn, Transform(algo.rfn, lo), lo + 1, hi)

\* The chunk a chunk task works on.
ChunkOf(i) == i - algo.base
ChunkLo(c) == algo.chunks[c][1]
ChunkHi(c) == algo.chunks[c][2]

\* The first element of chunk c on which the callable raises (0: none).
FirstFail(c) ==
    LET F == {e \in ChunkLo(c)..ChunkHi(c) : e \in algo.fails}
    IN  IF F = {} THEN 0 ELSE Min(F)

\* What a chunk task writes into its channel: the failure of the first element
\* that raised, else nothing (ForEach) or the chunk's partial (TransformReduce).
ChunkResult(i) ==
    LET c == ChunkOf(i)
    IN  IF FirstFail(c) # 0 THEN [st |-> "failure", v |-> FirstFail(c)]
        ELSE IF algo.op = "foreach" THEN [st |-> "value", v |-> 0]
        ELSE [st |-> "value", v |-> ChunkPartial(ChunkLo(c), ChunkHi(c))]

\* The call's data after task i has run: a chunk task has applied the callable
\* to its elements in ascending order, up to and including the first that raised.
AlgoAfterTask(i) ==
    IF kind[i] # "chunk" THEN algo
    ELSE LET c == ChunkOf(i)
             last == IF FirstFail(c) # 0 THEN FirstFail(c) ELSE ChunkHi(c)
         IN  [algo EXCEPT
                !.applied = [e \in Elems |->
                               IF e \in ChunkLo(c)..last THEN @[e] + 1 ELSE @[e]],
                !.firstFailed = IF @ = 0 /\ FirstFail(c) # 0 THEN c ELSE @,
                !.firstDone = IF @ = 0 THEN c ELSE @]

\* What running task i writes into its channel: the callable's value, or the
\* failure it raised (identified by the task's argument).
TaskResult(i) ==
    IF kind[i] = "chunk" THEN ChunkResult(i)
    ELSE IF kind[i] = "throw"
    THEN [st |-> "failure", v |-> ArgOf(i)]
    ELSE [st |-> "value", v |-> Callable(ArgOf(i))]

\* ------------------------------------------------------------------ Init
Init ==
    /\ ctor = "new"
    /\ viaDefault = FALSE
    /\ num_threads = 0
    /\ spawned = 0
    /\ hasStart = FALSE
    /\ hasStop = FALSE
    /\ startCalls = 0
    /\ stopCalls = 0
    /\ wpc = [w \in Workers |-> "none"]
    /\ cur = [w \in Workers |-> 0]
    /\ mutex = {}
    /\ tasks = <<>>
    /\ is_terminated = FALSE
    /\ mpc = "idle"
    /\ joined = 0
    /\ nsub = 0
    /\ kind = [i \in TaskIds |-> "none"]
    /\ inner = [i \in TaskIds |-> 0]
    /\ chan = [i \in TaskIds |-> NoChan]
    /\ got = [i \in TaskIds |-> Unread]
    /\ execCount = [i \in TaskIds |-> 0]
    /\ pendingAtStop = -1
    /\ idleAtStop = -1
    /\ algo = NoAlgo

\* ---------------------------------------------------------- construction
\* Mutant of ThrowsOnZero: the zero check is missing.
ThrowsOnZeroMissing(n) == FALSE

\* if (num_threads == 0) throw
ThrowsOnZero(n) == n = 0

\* ThreadPool(size_t num_threads, on_thread_start, on_thread_stop), up to the
\* spawn loop: the members are initialised, then zero is rejected.
ConstructBody(n, dflt, hs, hp) ==
    /\ ctor = "new"
    /\ viaDefault' = dflt
    /\ num_threads' = n
    /\ hasStart' = hs
    /\ hasStop' = hp
    /\ ctor' = IF ThrowsOnZero(n) THEN "threw" ELSE IF n = 0 THEN "ready" ELSE "spawning"
    /\ UNCHANGED <<algo, spawned, hookVars, poolVars, mpc, joined, taskVars, ghostVars>>

Construct(n, hs, hp) == ConstructBody(n, FALSE, hs, hp)

\* ThreadPool(on_thread_start, on_thread_stop): delegates with
\* std::thread::hardware_concurrency(), which may report 0.
DefaultConstruct(hc, hs, hp) == ConstructBody(hc, TRUE, hs, hp)

\* Mutant of SpawnLoopDone: the loop runs once too often (i <= num_threads).
SpawnLoopDoneLate(k) == k = num_threads + 1

\* for (size_t i = 0; i < num_threads; ++i): the loop ends after k threads.
SpawnLoopDone(k) == k = num_threads

\* One iteration of the spawn loop: threads_.emplace_back(worker lambda).
SpawnThread ==
    /\ ctor = "spawning"
    /\ spawned' = spawned + 1
    /\ wpc' = [wpc EXCEPT ![spawned + 1] = "start"]
    /\ ctor' = IF SpawnLoopDone(spawned + 1) THEN "ready" ELSE "spawning"
    /\ UNCHANGED <<algo, viaDefault, num_threads, hasStart, hasStop, hookVars, cur, mutex,
                   tasks, is_terminated, mpc, joined, taskVars, ghostVars>>

\* ---------------------------------------------------------------- worker
\* if (on_thread_start) on_thread_start();
WorkerStartHook(w) ==
    /\ wpc[w] = "start"
    /\ startCalls' = IF hasStart THEN startCalls + 1 ELSE startCalls
    /\ wpc' = [wpc EXCEPT ![w] = "lock"]
    /\ UNCHANGED <<algo, ctorVars, stopCalls, cur, mutex, tasks, is_terminated, mpc,
                   joined, taskVars, ghostVars>>

\* std::unique_lock<std::mutex> lock(this->m_task_);  also the re-acquisition
\* inside cv_task_.wait after a wake-up.
WorkerAcquire(w) ==
    /\ wpc[w] = "lock"
    /\ mutex = {}
    /\ mutex' = {w}
    /\ wpc' = [wpc EXCEPT ![w] = "locked"]
    /\ UNCHANGED <<algo, ctorVars, hookVars, cur, tasks, is_terminated, mpc, joined,
                   taskVars, ghostVars>>

\* Mutant of WaitPredicate: the predicate forgets the queue.
WaitPredicateFlagOnly == is_terminated

\* Mutant of WaitPredicate: the predicate forgets the termination flag.
WaitPredicateQueueOnly == tasks # <<>>

\* The wait predicate: !tasks_.empty() || is_terminated_
WaitPredicate == tasks # <<>> \/ is_terminated

\* Mutant of ExitCondition: the worker leaves as soon as the flag is set.
ExitConditionNoDrain == is_terminated

\* if (tasks_.empty() && is_terminated_) return;
ExitCondition == tasks = <<>> /\ is_terminated

\* cv_task_.wait(lock, pred) with pred false: release the mutex and block.
WorkerWait(w) ==
    /\ wpc[w] = "locked"
    /\ ~WaitPredicate
    /\ mutex' = {}
    /\ wpc' = [wpc EXCEPT ![w] = "waiting"]
    /\ UNCHANGED <<algo, ctorVars, hookVars, cur, tasks, is_terminated, mpc, joined,
                   taskVars, ghostVars>>

\* What the worker's `return` at line 29 does to the stop-hook count: it leaves
\* the lambda, so the code after the loop (lines 38-40) is not executed.
StopCallsAfterReturn == stopCalls

\* pred true, queue empty and terminated: return (the lock's destructor
\* releases the mutex, the thread ends).
WorkerReturn(w) ==
    /\ wpc[w] = "locked"
    /\ WaitPredicate
    /\ ExitCondition
    /\ mutex' = {}
    /\ wpc' = [wpc EXCEPT ![w] = "exited"]
    /\ stopCalls' = StopCallsAfterReturn
    /\ UNCHANGED <<algo, ctorVars, startCalls, cur, tasks, is_terminated, mpc, joined,
                   taskVars, ghostVars>>

\* Mutant of PoppedTask: back() is taken instead of front().
PoppedTaskBack == tasks[Len(tasks)]

\* task = tasks_.front();
PoppedTask == Head(tasks)

\* Mutant of QueueAfterPop: the pop is missing.
QueueAfterPopMissing == tasks

\* tasks_.pop();
QueueAfterPop == Tail(tasks)

\* Mutant of MutexAfterUnlock: the unlock before task() is missing.
MutexStillHeld(w) == mutex

\* lock.unlock();
MutexAfterUnlock(w) == mutex \ {w}

\* pred true and not the exit case: take the front task, pop, unlock.
WorkerPop(w) ==
    /\ wpc[w] = "locked"
    /\ WaitPredicate
    /\ ~ExitCondition
    /\ cur' = [cur EXCEPT ![w] = PoppedTask]
    /\ tasks' = QueueAfterPop
    /\ mutex' = MutexAfterUnlock(w)
    /\ wpc' = [wpc EXCEPT ![w] = "running"]
    /\ UNCHANGED <<algo, ctorVars, hookVars, is_terminated, mpc, joined, taskVars, ghostVars>>

\* Mutant of AfterTask: a failure raised by the callable ends the thread.
AfterTaskEscapes(i) == IF kind[i] = "throw" THEN "exited" ELSE "lock"

\* Where the worker goes after task() returns; a failure raised by the
\* callable was stored in the channel by the wrapper and does not escape.
AfterTask(i) == "lock"

\* The kinds of task whose body submits a task to the same pool: "spawn" lets
\* it go (EnqueueTaskThatEnqueuesMoreTasks), "block" then reads its handle.
Submitting == {"spawn", "block"}

\* The body of the task held by w has run to its end: at once for a plain
\* task, after its inner Enqueue has returned (and, for "block", the inner
\* task's handle has been read) for a task that submits one.
TaskBodyDone(w) ==
    \/ wpc[w] = "running" /\ kind[cur[w]] \notin Submitting
    \/ wpc[w] = "finishing"

\* task();  the wrapper runs the callable and resolves the task's channel.
WorkerRunTask(w) ==
    /\ TaskBodyDone(w)
    /\ chan' = [chan EXCEPT ![cur[w]] = TaskResult(cur[w])]
    /\ execCount' = [execCount EXCEPT ![cur[w]] = @ + 1]
    /\ cur' = [cur EXCEPT ![w] = 0]
    /\ wpc' = [wpc EXCEPT ![w] = AfterTask(cur[w])]
    /\ algo' = AlgoAfterTask(cur[w])
    /\ UNCHANGED <<ctorVars, hookVars, mutex, tasks, is_terminated, mpc, joined,
                   nsub, kind, inner, got, ghostVars>>

\* std::condition_variable::wait may return without a notification.
SpuriousWakeup(w) ==
    /\ wpc[w] = "waiting"
    /\ wpc' = [wpc EXCEPT ![w] = "lock"]
    /\ UNCHANGED <<algo, ctorVars, hookVars, cur, mutex, tasks, is_terminated, mpc, joined,
                   taskVars, ghostVars>>

\* ---------------------------------------------------------------- caller
\* A task of kind "spawn" (EnqueueTaskThatEnqueuesMoreTasks) has submitted its
\* inner task.
InnerSubmitted(i) ==
    \/ execCount[i] >= 1
    \/ \E w \in Workers :
          cur[w] = i /\ wpc[w] \in {"n_push", "n_notify", "blocked", "finishing"}

\* Task ids kept free for the inner tasks that submitted "spawn" tasks will submit.
Reserved == Cardinality({i \in 1..nsub : kind[i] \in Submitting /\ ~InnerSubmitted(i)})

\* The model's bound on submissions: a task of kind k still fits.
RoomFor(k) == nsub + Reserved + (IF k \in Submitting THEN 2 ELSE 1) <= MaxTasks

\* Enqueue(callable, args...): build the task and its channel, lock m_task_.
Enqueue(k) ==
    /\ ctor = "ready"
    /\ mpc = "idle"
    /\ RoomFor(k)
    /\ mutex = {}
    /\ mutex' = {Caller}
    /\ nsub' = nsub + 1
    /\ kind' = [kind EXCEPT ![nsub + 1] = k]
    /\ chan' = [chan EXCEPT ![nsub + 1] = Pending]
    /\ mpc' = "enq_push"
    /\ UNCHANGED <<algo, ctorVars, hookVars, wpc, cur, tasks, is_terminated, joined, inner,
                   got, execCount, ghostVars>>

\* tasks_.emplace(task) under the lock, then unlock.
EnqueuePush ==
    /\ mpc = "enq_push"
    /\ tasks' = Append(tasks, nsub)
    /\ mutex' = {}
    /\ mpc' = "enq_notify"
    /\ UNCHANGED <<algo, ctorVars, hookVars, wpc, cur, is_terminated, joined, taskVars, ghostVars>>

Waiting == {w \in Workers : wpc[w] = "waiting"}

\* cv_task_.notify_one(): wakes one waiting worker, if there is one; the
\* handle is returned.
EnqueueNotify ==
    /\ mpc = "enq_notify"
    /\ \/ /\ Waiting = {}
          /\ wpc' = wpc
       \/ \E w \in Waiting : wpc' = [wpc EXCEPT ![w] = "lock"]
    /\ mpc' = "idle"
    /\ UNCHANGED <<algo, ctorVars, hookVars, cur, mutex, tasks, is_terminated, joined,
                   taskVars, ghostVars>>

\* The inner pool.Enqueue(...) of a running task that submits, called on the
\* worker thread: build the inner task and its channel, lock m_task_.
NestedEnqueue(w) ==
    /\ wpc[w] = "running"
    /\ kind[cur[w]] \in Submitting
    /\ nsub < MaxTasks
    /\ mutex = {}
    /\ mutex' = {w}
    /\ nsub' = nsub + 1
    /\ kind' = [kind EXCEPT ![nsub + 1] = "inner"]
    /\ inner' = [inner EXCEPT ![cur[w]] = nsub + 1]
    /\ chan' = [chan EXCEPT ![nsub + 1] = Pending]
    /\ wpc' = [wpc EXCEPT ![w] = "n_push"]
    /\ UNCHANGED <<algo, ctorVars, hookVars, cur, tasks, is_terminated, mpc, joined, got,
                   execCount, ghostVars>>

\* The inner Enqueue: tasks_.emplace(task) under the lock, then unlock.
NestedPush(w) ==
    /\ wpc[w] = "n_push"
    /\ tasks' = Append(tasks, nsub)
    /\ mutex' = {}
    /\ wpc' = [wpc EXCEPT ![w] = "n_notify"]
    /\ UNCHANGED <<algo, ctorVars, hookVars, cur, is_terminated, mpc, joined, taskVars, ghostVars>>

\* Where the task body goes when its inner Enqueue has returned: a "block"
\* task reads the inner task's handle next.
AfterInnerEnqueue(w) == IF kind[cur[w]] = "block" THEN "blocked" ELSE "finishing"

\* The inner Enqueue: cv_task_.notify_one(), then it returns to the task body.
NestedNotify(w) ==
    /\ wpc[w] = "n_notify"
    /\ \/ /\ Waiting = {}
          /\ wpc' = [wpc EXCEPT ![w] = AfterInnerEnqueue(w)]
       \/ \E v \in Waiting : wpc' = [wpc EXCEPT ![w] = AfterInnerEnqueue(w), ![v] = "lock"]
    /\ UNCHANGED <<algo, ctorVars, hookVars, cur, mutex, tasks, is_terminated, mpc, joined,
                   taskVars, ghostVars>>

Resolved(i) == chan[i].st \in {"value", "failure"}

\* future.get() inside the body of a "block" task: the worker thread stays in
\* the task until the inner task's channel is resolved.
NestedGet(w) ==
    /\ wpc[w] = "blocked"
    /\ Resolved(inner[cur[w]])
    /\ wpc' = [wpc EXCEPT ![w] = "finishing"]
    /\ UNCHANGED <<algo, ctorVars, hookVars, cur, mutex, tasks, is_terminated, mpc, joined,
                   taskVars, ghostVars>>

\* ------------------------------------------- ForEach / TransformReduce calls
NChunks == Len(algo.chunks)

\* ForEach(begin, end, fn) or TransformReduce(begin, end, init, transformFn,
\* reduceFn) is called on a range of length L whose callable raises on the
\* elements F: the range is partitioned; an empty range returns at once
\* (TransformReduce returns init).
AlgoStart(op, L, F, rfn, init) ==
    /\ ctor = "ready"
    /\ mpc = "idle"
    /\ algo.op = "none"
    /\ algo' = [NoAlgo EXCEPT !.op = op, !.len = L, !.fails = F, !.rfn = rfn,
                              !.init = init, !.result = init, !.base = nsub,
                              !.chunks = Partition(L, num_threads),
                              !.pc = IF L = 0 THEN "done" ELSE "running"]
    /\ UNCHANGED <<ctorVars, hookVars, poolVars, mpc, joined, taskVars, ghostVars>>

\* One task per chunk is submitted through Enqueue, in chunk order.
AlgoSubmit ==
    /\ algo.pc = "running"
    /\ nsub - algo.base < NChunks
    /\ Enqueue("chunk")

\* Mutant of AllAwaited: the wait loop stops at the first failed chunk.
AllAwaitedOrFailed ==
    \/ algo.waited = NChunks
    \/ algo.waited >= 1 /\ chan[algo.base + algo.waited].st = "failure"

\* Every chunk's channel has been waited for.
AllAwaited == algo.waited = NChunks

\* The call blocks on the next chunk's channel, in chunk order.
AlgoAwait ==
    /\ algo.pc = "running"
    /\ mpc = "idle"
    /\ nsub - algo.base = NChunks
    /\ ~AllAwaited
    /\ Resolved(algo.base + algo.waited + 1)
    /\ algo' = [algo EXCEPT !.waited = @ + 1]
    /\ UNCHANGED <<ctorVars, hookVars, poolVars, mpc, joined, taskVars, ghostVars>>

\* The awaited chunks whose task failed.
FailedChunks == {c \in 1..algo.waited : chan[algo.base + c].st = "failure"}

RECURSIVE CombineFrom(_, _)
\* The partial results are combined in chunk order, init first.
CombineFrom(acc, c) ==
    IF c > NChunks THEN acc
    ELSE CombineFrom(Reduce(algo.rfn, acc, chan[algo.base + c].v), c + 1)

\* After the waits the call re-raises the failure of the first failed chunk,
\* or returns (TransformReduce: the combined accumulator).
AlgoFinish ==
    /\ algo.pc = "running"
    /\ mpc = "idle"
    /\ nsub - algo.base = NChunks
    /\ AllAwaited
    /\ algo' = IF FailedChunks # {}
               THEN [algo EXCEPT !.pc = "raised", !.raised = Min(FailedChunks)]
               ELSE [algo EXCEPT !.pc = "done",
                                 !.result = IF algo.op = "reduce"
                                            THEN CombineFrom(algo.init, 1) ELSE @]
    /\ UNCHANGED <<ctorVars, hookVars, poolVars, mpc, joined, taskVars, ghostVars>>

\* future.get(): blocks until the channel is resolved, then yields its content;
\* the handle is consumed by the read.
Get(i) ==
    /\ mpc \in {"idle", "done"}
    /\ i <= nsub
    /\ got[i] = Unread
    /\ chan[i].st \in {"value", "failure"}
    /\ got' = [got EXCEPT ![i] = chan[i]]
    /\ UNCHANGED <<algo, ctorVars, hookVars, poolVars, mpc, joined, nsub, kind, inner,
                   chan, execCount, ghostVars>>

\* ~ThreadPool(): std::lock_guard<std::mutex> lock(m_task_);
DtorAcquire ==
    /\ ctor = "ready"
    /\ mpc = "idle"
    /\ mutex = {}
    /\ mutex' = {Caller}
    /\ mpc' = "dtor_flag"
    /\ UNCHANGED <<algo, ctorVars, hookVars, wpc, cur, tasks, is_terminated, joined,
                   taskVars, ghostVars>>

\* is_terminated_ = true; then the guard's scope ends.
DtorSetFlag ==
    /\ mpc = "dtor_flag"
    /\ is_terminated' = TRUE
    /\ mutex' = {}
    /\ mpc' = "dtor_notify"
    /\ pendingAtStop' = Len(tasks) + Cardinality({w \in Workers : cur[w] # 0})
    /\ idleAtStop' = Cardinality(Waiting)
    /\ UNCHANGED <<algo, ctorVars, hookVars, wpc, cur, tasks, joined, taskVars>>

\* cv_task_.notify_all();
DtorNotifyAll ==
    /\ mpc = "dtor_notify"
    /\ wpc' = [w \in Workers |-> IF wpc[w] = "waiting" THEN "lock" ELSE wpc[w]]
    /\ mpc' = IF num_threads = 0 THEN "done" ELSE "dtor_join"
    /\ UNCHANGED <<algo, ctorVars, hookVars, cur, mutex, tasks, is_terminated, joined,
                   taskVars, ghostVars>>

\* Mutant of JoinReturns: the destructor does not wait for the thread.
JoinReturnsDetached(j) == TRUE

\* thread.join() returns once the thread's function has returned.
JoinReturns(j) == wpc[j] = "exited"

\* for (auto& thread : threads_) thread.join();  one join per step.
DtorJoin ==
    /\ mpc = "dtor_join"
    /\ JoinReturns(joined + 1)
    /\ joined' = joined + 1
    /\ mpc' = IF joined + 1 = num_threads THEN "done" ELSE "dtor_join"
    /\ UNCHANGED <<algo, ctorVars, hookVars, poolVars, taskVars, ghostVars>>

\* ------------------------------------------------------------------ Next
Next ==
    \/ \E n \in 0..MaxThreads, hs \in BOOLEAN, hp \in BOOLEAN : Construct(n, hs, hp)
    \/ \E hc \in 0..MaxThreads, hs \in BOOLEAN, hp \in BOOLEAN : DefaultConstruct(hc, hs, hp)
    \/ SpawnThread
    \/ \E w \in Workers : WorkerStartHook(w)
    \/ \E w \in Workers : WorkerAcquire(w)
    \/ \E w \in Workers : WorkerWait(w)
    \/ \E w \in Workers : WorkerReturn(w)
    \/ \E w \in Workers : WorkerPop(w)
    \/ \E w \in Workers : WorkerRunTask(w)
    \/ \E w \in Workers : SpuriousWakeup(w)
    \/ \E k \in {"value", "throw"} : Enqueue(k)
    \/ EnqueuePush
    \/ EnqueueNotify
    \/ \E i \in TaskIds : Get(i)
    \/ DtorAcquire
    \/ DtorSetFlag
    \/ DtorNotifyAll
    \/ DtorJoin

Spec == Init /\ [][Next]_vars

\* Fair scheduling: a thread that can take its next step eventually takes it.
\* Starting a submission, starting the teardown, reading a handle and spurious
\* wake-ups are not forced.
Fairness ==
    /\ WF_vars(SpawnThread)
    /\ \A w \in Workers :
        /\ WF_vars(WorkerStartHook(w))
        /\ WF_vars(WorkerAcquire(w))
        /\ WF_vars(WorkerWait(w) \/ WorkerReturn(w) \/ WorkerPop(w))
        /\ WF_vars(WorkerRunTask(w))
    /\ WF_vars(EnqueuePush)
    /\ WF_vars(EnqueueNotify)
    /\ WF_vars(DtorSetFlag)
    /\ WF_vars(DtorNotifyAll)
    /\ WF_vars(DtorJoin)

\* The behaviours checked for liveness: a pool built by the explicit constructor
\* with both hooks supplied, whose caller submits and tears down but does not
\* read handles (none of which changes what the workers or the destructor do).
LiveNext ==
    \/ \E n \in 1..MaxThreads : Construct(n, TRUE, TRUE)
    \/ SpawnThread
    \/ \E w \in Workers : WorkerStartHook(w)
    \/ \E w \in Workers : WorkerAcquire(w)
    \/ \E w \in Workers : WorkerWait(w)
    \/ \E w \in Workers : WorkerReturn(w)
    \/ \E w \in Workers : WorkerPop(w)
    \/ \E w \in Workers : WorkerRunTask(w)
    \/ \E w \in Workers : SpuriousWakeup(w)
    \/ \E k \in {"value", "throw"} : Enqueue(k)
    \/ EnqueuePush
    \/ EnqueueNotify
    \/ DtorAcquire
    \/ DtorSetFlag
    \/ DtorNotifyAll
    \/ DtorJoin

LiveSpec == Init /\ [][LiveNext]_vars /\ Fairness

\* The behaviours with re-entrant submission: as LiveNext, and a submitted task
\* may be one that itself submits a task to the same pool from its worker.
NestedNext ==
    \/ \E n \in 1..MaxThreads : Construct(n, TRUE, TRUE)
    \/ SpawnThread
    \/ \E w \in Workers : WorkerStartHook(w)
    \/ \E w \in Workers : WorkerAcquire(w)
    \/ \E w \in Workers : WorkerWait(w)
    \/ \E w \in Workers : WorkerReturn(w)
    \/ \E w \in Workers : WorkerPop(w)
    \/ \E w \in Workers : WorkerRunTask(w)
    \/ \E w \in Workers : SpuriousWakeup(w)
    \/ \E w \in Workers : NestedEnqueue(w)
    \/ \E w \in Workers : NestedPush(w)
    \/ \E w \in Workers : NestedNotify(w)
    \/ \E k \in {"value", "spawn"} : Enqueue(k)
    \/ EnqueuePush
    \/ EnqueueNotify
    \/ DtorAcquire
    \/ DtorSetFlag
    \/ DtorNotifyAll
    \/ DtorJoin

\* A task body that can take its next step eventually takes it.  The inner
\* Enqueue's lock is contended by workers that may wake spuriously for ever, so
\* its acquisition is strongly fair: a thread that finds the mutex free
\* infinitely often eventually gets it.
NestedFairness ==
    \A w \in Workers :
        /\ SF_vars(NestedEnqueue(w))
        /\ WF_vars(NestedPush(w))
        /\ WF_vars(NestedNotify(w))

NestedSpec == Init /\ [][NestedNext]_vars /\ Fairness /\ NestedFairness

\* The behaviours of one ForEach or TransformReduce call on a pool built by the
\* explicit constructor without hooks; the pool stays alive.
AlgoNext ==
    \/ \E n \in 1..MaxThreads : Construct(n, FALSE, FALSE)
    \/ SpawnThread
    \/ \E w \in Workers : WorkerStartHook(w)
    \/ \E w \in Workers : WorkerAcquire(w)
    \/ \E w \in Workers : WorkerWait(w)
    \/ \E w \in Workers : WorkerPop(w)
    \/ \E w \in Workers : WorkerRunTask(w)
    \/ \E w \in Workers : SpuriousWakeup(w)
    \/ \E L \in 0..MaxLen, F \in SUBSET Elems :
            F \subseteq 1..L /\ AlgoStart("foreach", L, F, "none", 0)
    \/ \E L \in 0..MaxLen, F \in SUBSET Elems, rfn \in {"add", "sub", "concat"} :
            \E init \in Inits(rfn) : F \subseteq 1..L /\ AlgoStart("reduce", L, F, rfn, init)
    \/ AlgoSubmit
    \/ EnqueuePush
    \/ EnqueueNotify
    \/ AlgoAwait
    \/ AlgoFinish

AlgoSpec == Init /\ [][AlgoNext]_vars

\* The behaviours with re-entrant blocking use: a submitted task may be one that
\* submits a task to the same pool from its worker and then reads its handle;
\* the pool stays alive.
BlockNext ==
    \/ \E n \in 1..MaxThreads : Construct(n, FALSE, FALSE)
    \/ SpawnThread
    \/ \E w \in Workers : WorkerStartHook(w)
    \/ \E w \in Workers : WorkerAcquire(w)
    \/ \E w \in Workers : WorkerWait(w)
    \/ \E w \in Workers : WorkerPop(w)
    \/ \E w \in Workers : WorkerRunTask(w)
    \/ \E w \in Workers : SpuriousWakeup(w)
    \/ \E w \in Workers : NestedEnqueue(w)
    \/ \E w \in Workers : NestedPush(w)
    \/ \E w \in Workers : NestedNotify(w)
    \/ \E w \in Workers : NestedGet(w)
    \/ \E k \in {"value", "block"} : Enqueue(k)
    \/ EnqueuePush
    \/ EnqueueNotify

\* The read of the inner handle returns once the channel is resolved.
BlockFairness == \A w \in Workers : WF_vars(NestedGet(w))

BlockSpec == Init /\ [][BlockNext]_vars /\ Fairness /\ NestedFairness /\ BlockFairness

Live == 1..num_threads
Submitted == 1..nsub
ValueOf(i) == [st |-> "value", v |-> 2 * i]
FailureOf(i) == [st |-> "failure", v |-> i]

\* ------------------------------------------------------------------ C1
\* C1: when the destructor has returned, every task that was ever submitted
\* has finished executing: the queue is empty, no worker still holds a task,
\* and every submitted task's body has run.
TeardownDrains ==
    mpc = "done" =>
        /\ tasks = <<>>
        /\ \A w \in Workers : wpc[w] # "running" /\ cur[w] = 0
        /\ \A i \in Submitted : execCount[i] >= 1

\* The destructor returned after a teardown that began with at least two
\* tasks pending or in flight.
TeardownDrainsWitness == mpc = "done" /\ pendingAtStop >= 2

\* ------------------------------------------------------------------ C2
\* No task is stranded: once Enqueue has sent its signal, the queue is never
\* non-empty while every worker is blocked in the condition wait.
NoStrandedTask ==
    ~(/\ ctor = "ready"
      /\ tasks # <<>>
      /\ mpc # "enq_notify"
      /\ \A w \in Live : wpc[w] = "waiting")

\* C2: under fair scheduling every task appended by Enqueue is eventually
\* executed, whether or not teardown starts first, and no wake-up is lost.
EveryTaskEventuallyRuns ==
    /\ []NoStrandedTask
    /\ \A i \in TaskIds : (chan[i].st = "pending") ~> (execCount[i] >= 1)

\* A task has run although teardown began while it was still queued and a
\* worker was still blocked in the wait.
EveryTaskEventuallyRunsWitness ==
    /\ pendingAtStop >= 1
    /\ idleAtStop >= 1
    /\ nsub >= 1
    /\ \A i \in Submitted : execCount[i] >= 1

\* ------------------------------------------------------------------ C3
InQueue(i) == Cardinality({k \in 1..Len(tasks) : tasks[k] = i})
Held(i) == Cardinality({w \in Workers : cur[w] = i})

\* C3: each task is handed to at most one worker and runs at most once: a
\* submitted task is in exactly one place (queued once, held by one worker, or
\* executed once), and after teardown every submitted task has run exactly once.
ExecutedExactlyOnce ==
    /\ \A i \in TaskIds : execCount[i] <= 1
    /\ \A i \in TaskIds : InQueue(i) + Held(i) + execCount[i] <= 1
    /\ mpc = "done" => \A i \in Submitted : execCount[i] = 1

\* Two workers are executing tasks at the same time.
ExecutedExactlyOnceWitness ==
    \E w1 \in Workers, w2 \in Workers :
        w1 # w2 /\ wpc[w1] = "running" /\ wpc[w2] = "running"

\* ------------------------------------------------------------------ C4
\* C4: the handle of the i-th submission (callable x * 2 applied to i) yields
\* 2 * i and nothing else: its channel is pending or holds 2 * i, a completed
\* read returned 2 * i, and after teardown the channel holds 2 * i.
HandleYieldsOwnValue ==
    \A i \in TaskIds : kind[i] = "value" =>
        /\ chan[i] \in {Pending, ValueOf(i)}
        /\ got[i] \in {Unread, ValueOf(i)}
        /\ mpc = "done" => chan[i] = ValueOf(i)

\* The second handle was read while the first task was still unfinished
\* (the tasks completed out of submission order).
HandleYieldsOwnValueWitness ==
    /\ nsub >= 2
    /\ kind[1] = "value"
    /\ kind[2] = "value"
    /\ got[2] = ValueOf(2)
    /\ chan[1] = Pending

\* ------------------------------------------------------------------ C5
\* C5: a task whose callable raises resolves its channel to that failure: the
\* channel is pending or holds the task's own failure, a completed read
\* received that failure (never a value), and after teardown the channel is
\* resolved, so the read does not hang.
FailureReachesReader ==
    \A i \in TaskIds : kind[i] = "throw" =>
        /\ chan[i] \in {Pending, FailureOf(i)}
        /\ got[i] \in {Unread, FailureOf(i)}
        /\ execCount[i] >= 1 => chan[i] = FailureOf(i)
        /\ mpc = "done" => chan[i] = FailureOf(i)

\* The reader of a failing task's handle has received the failure.
FailureReachesReaderWitness ==
    \E i \in Submitted : kind[i] = "throw" /\ got[i] = FailureOf(i)

\* ------------------------------------------------------------------ C6
\* Worker w finishes a task whose callable raised.
FailStep(w) == wpc[w] = "running" /\ kind[cur[w]] = "throw" /\ wpc'[w] # "running"

FailureFrame ==
    \A w \in Workers : FailStep(w) =>
        /\ wpc'[w] = "lock"
        /\ \A v \in Workers \ {w} : wpc'[v] = wpc[v] /\ cur'[v] = cur[v]
        /\ tasks' = tasks
        /\ \A j \in TaskIds \ {cur[w]} : chan'[j] = chan[j] /\ execCount'[j] = execCount[j]

\* C6: a task failure is local: the step in which a worker finishes a failing
\* task leaves that worker in its loop, the queue, the other workers and every
\* other channel unchanged; and no worker has exited before teardown set the
\* flag (the number of live workers stays num_threads).
FailureIsLocal ==
    /\ [][FailureFrame]_vars
    /\ [](~is_terminated => \A w \in Workers : wpc[w] # "exited")

\* On a single-worker pool a task queued behind a failing task has run.
FailureIsLocalWitness ==
    /\ num_threads = 1
    /\ nsub >= 2
    /\ kind[1] = "throw"
    /\ execCount[1] = 1
    /\ execCount[2] = 1
    /\ ~is_terminated

\* ------------------------------------------------------------------ C7
\* C7: a constructor call with num_threads == 0 throws, and for that pool no
\* worker is spawned, no hook runs and nothing touches the queue.
ZeroThreadsRejected ==
    (ctor # "new" /\ num_threads = 0) =>
        /\ ctor = "threw"
        /\ spawned = 0
        /\ \A w \in Workers : wpc[w] = "none"
        /\ startCalls = 0
        /\ stopCalls = 0
        /\ tasks = <<>>
        /\ nsub = 0
        /\ mpc = "idle"

\* The explicit constructor was called with 0 and both hooks, and threw.
ZeroThreadsRejectedWitness ==
    ctor = "threw" /\ ~viaDefault /\ num_threads = 0 /\ hasStart /\ hasStop

\* ------------------------------------------------------------------ C8
\* C8: the zero-argument constructor always succeeds and yields a pool with at
\* least one worker, whatever hardware_concurrency() reports (0 included).
DefaultConstructorSucceeds ==
    viaDefault => /\ ctor # "threw"
                  /\ ctor = "ready" => num_threads >= 1

\* ------------------------------------------------------------------ C9
\* C9: with a stop-hook supplied, every worker that has exited has invoked it,
\* so when the destructor has returned it has run num_threads times.
StopHookRunsPerWorker ==
    hasStop =>
        /\ stopCalls = Cardinality({w \in Workers : wpc[w] = "exited"})
        /\ mpc = "done" => stopCalls = num_threads

\* ----------------------------------------------------------------- C10
\* C10: teardown terminates: once the termination flag is set, every worker
\* eventually exits and the destructor's joins all return.
TeardownTerminates ==
    is_terminated ~> (mpc = "done" /\ \A w \in Live : wpc[w] = "exited")

\* The destructor returned from a teardown that began with an empty queue and
\* every worker of a full-size pool blocked in the wait.
TeardownTerminatesWitness ==
    /\ mpc = "done"
    /\ num_threads = MaxThreads
    /\ pendingAtStop = 0
    /\ idleAtStop = MaxThreads

\* ----------------------------------------------------------------- C12
Running == {w \in Workers : wpc[w] = "running"}
AllRunning == num_threads >= 1 /\ \A w \in Live : wpc[w] = "running"

\* C12: at most num_threads tasks execute at once: the running workers are
\* among the pool's num_threads workers and each holds exactly one task, no two
\* the same; and while all num_threads workers are running no task leaves the
\* queue (a further task stays pending until a running one finishes).
BoundedParallelism ==
    /\ [](/\ Cardinality(Running) <= num_threads
          /\ \A w \in Running : cur[w] \in Submitted
          /\ \A w \in Workers \ Running : cur[w] = 0
          /\ \A w1 \in Running, w2 \in Running : w1 # w2 => cur[w1] # cur[w2]
          /\ \A k \in 1..Len(tasks) : chan[tasks[k]] = Pending /\ execCount[tasks[k]] = 0)
    /\ [][AllRunning => Len(tasks') >= Len(tasks)]_vars

\* A full-size pool has all of its workers running a task at once.
BoundedParallelismWitness == num_threads = MaxThreads /\ AllRunning

\* ----------------------------------------------------------------- C17
\* C17: a channel is pending exactly while its task is submitted and has not
\* run, a resolved channel is never written again, and a completed read saw a
\* resolved channel whose task had run.
ChannelWrittenOnce ==
    /\ [][\A i \in TaskIds : Resolved(i) =>
            chan'[i] = chan[i] /\ execCount'[i] = execCount[i]]_vars
    /\ [](\A i \in TaskIds :
            /\ got[i] # Unread => Resolved(i) /\ got[i] = chan[i] /\ execCount[i] >= 1
            /\ chan[i] = Pending <=> (i <= nsub /\ execCount[i] = 0))

\* Enqueue has returned the second handle although its task has not run, and
\* the read of the first handle has completed.
ChannelWrittenOnceWitness ==
    /\ mpc = "idle"
    /\ nsub >= 2
    /\ got[1] # Unread
    /\ chan[2] = Pending
    /\ execCount[2] = 0

\* ----------------------------------------------------------------- C18
\* C18: a worker that is executing a task body does not hold m_task_.
NoLockWhileRunning ==
    \A w \in Workers : wpc[w] = "running" => w \notin mutex

\* A task is running while another worker holds the lock to dequeue the next
\* task.
NoLockWhileRunningWitness ==
    \E w \in Workers, v \in Workers :
        /\ wpc[w] = "running"
        /\ wpc[v] = "locked"
        /\ mutex = {v}
        /\ tasks # <<>>

\* ----------------------------------------------------------------- C20
\* Worker w exits in this step.
ExitStep(w) == wpc[w] # "exited" /\ wpc'[w] = "exited"

\* C20: a worker exits only in a step taken while it holds the lock with the
\* termination flag set and the queue empty; no worker has exited while the
\* flag is unset.
ExitOnlyWhenDrained ==
    /\ [][\A w \in Workers : ExitStep(w) =>
            /\ wpc[w] = "locked"
            /\ mutex = {w}
            /\ is_terminated
            /\ tasks = <<>>]_vars
    /\ [](\A w \in Workers : wpc[w] = "exited" => is_terminated)

\* One worker has exited while another is still executing a task that was
\* pending when teardown began.
ExitOnlyWhenDrainedWitness ==
    /\ pendingAtStop >= 1
    /\ \E w \in Workers, v \in Workers : wpc[w] = "exited" /\ wpc[v] = "running"

\* ----------------------------------------------------------------- C11
OfKind(k) == {i \in TaskIds : kind[i] = k}
Executed == {i \in TaskIds : execCount[i] >= 1}

\* Every submitting task has run to its end and so has every inner task, one
\* for each submitting task.
NestedAllDone ==
    /\ OfKind("spawn") \subseteq Executed
    /\ OfKind("inner") \subseteq Executed
    /\ Cardinality(OfKind("inner")) = Cardinality(OfKind("spawn"))

\* C11: a task that submits a further task to the same pool from its worker
\* never deadlocks: under fair scheduling the outer and the inner task both
\* complete, for every pool size, and the queue is never left non-empty with
\* every worker blocked in the wait and no signal outstanding.
NestedEnqueueCompletes ==
    /\ [](~(/\ ctor = "ready"
            /\ tasks # <<>>
            /\ mpc # "enq_notify"
            /\ \A w \in Live : wpc[w] = "waiting"))
    /\ (OfKind("spawn") # {}) ~> NestedAllDone

\* On a single-worker pool the outer task has finished while the inner task it
\* submitted is still queued: the inner Enqueue returned without a free worker.
NestedEnqueueCompletesWitness ==
    /\ num_threads = 1
    /\ \E i \in TaskIds, j \in TaskIds :
        /\ kind[i] = "spawn"
        /\ kind[j] = "inner"
        /\ execCount[i] = 1
        /\ execCount[j] = 0
        /\ tasks = <<j>>

\* ----------------------------------------------------------------- C19
\* Worker w pops a task in this step.
PopStep(w) == cur[w] = 0 /\ cur'[w] # 0

\* C19: tasks are dequeued in the order of their appends (task ids are given
\* under the lock, in append order): the queue is in ascending id order, a pop
\* takes a task older than everything left in the queue, nothing queued is
\* older than a task already popped, and on a single-worker pool tasks finish
\* in submission order.
DequeuedInSubmissionOrder ==
    /\ [][\A w \in Workers : PopStep(w) =>
            \A k \in 1..Len(tasks') : cur'[w] < tasks'[k]]_vars
    /\ [](/\ \A k \in 1..Len(tasks), m \in 1..Len(tasks) : k < m => tasks[k] < tasks[m]
          /\ \A k \in 1..Len(tasks), i \in TaskIds :
                (execCount[i] >= 1 \/ Held(i) >= 1) => i < tasks[k]
          /\ num_threads = 1 =>
                \A i \in TaskIds, j \in TaskIds :
                    (j < i /\ execCount[i] >= 1) => execCount[j] >= 1)

\* The first submitted task has been popped and is running while the second
\* waits behind it in the queue.
DequeuedInSubmissionOrderWitness ==
    \E w \in Workers : wpc[w] = "running" /\ cur[w] = 1 /\ tasks = <<2>>

\* ----------------------------------------------------------------- C16
ChunkLen(c) == ChunkHi(c) - ChunkLo(c) + 1
ChunkTasks == (algo.base + 1)..nsub
Returned == algo.pc \in {"done", "raised"}

\* C16: a range of length L is split into exactly min(threadCount, L) chunks
\* that are non-empty, contiguous, disjoint and cover 1..L in order, whose sizes
\* differ by at most one with the larger ones first; one task per chunk is
\* submitted (none for L = 0), each a chunk task.
PartitionBalanced ==
    algo.op # "none" =>
        /\ NChunks = (IF num_threads < algo.len THEN num_threads ELSE algo.len)
        /\ NChunks > 0 => ChunkLo(1) = 1 /\ ChunkHi(NChunks) = algo.len
        /\ \A c \in 1..NChunks : ChunkLo(c) <= ChunkHi(c)
        /\ \A c \in 1..(NChunks - 1) :
              /\ ChunkLo(c + 1) = ChunkHi(c) + 1
              /\ ChunkLen(c) >= ChunkLen(c + 1)
        /\ \A c \in 1..NChunks : ChunkLen(1) - ChunkLen(c) <= 1
        /\ nsub - algo.base <= NChunks
        /\ \A i \in ChunkTasks : kind[i] = "chunk"
        /\ Returned => nsub - algo.base = NChunks
        /\ algo.len = 0 => nsub = algo.base

\* A call on a range that does not divide evenly among several workers has
\* returned.
PartitionBalancedWitness ==
    /\ Returned
    /\ num_threads > 1
    /\ algo.len > num_threads
    /\ algo.len % num_threads # 0
    /\ nsub - algo.base = num_threads

\* ----------------------------------------------------------------- C13
\* C13: ForEach applies fn at most once to an element of the range and never to
\* anything outside it; when it returns without failure fn has been applied
\* exactly once to every element; on an empty range it returns at once and
\* submits no task.
ForEachAppliesOnce ==
    algo.op = "foreach" =>
        /\ \A e \in Elems :
              /\ algo.applied[e] <= 1
              /\ e > algo.len => algo.applied[e] = 0
              /\ (algo.pc = "done" /\ e <= algo.len) => algo.applied[e] = 1
        /\ algo.len = 0 => algo.pc = "done" /\ nsub = algo.base

\* ForEach has returned without failure from a range longer than the number of
\* workers, of which there are several.
ForEachAppliesOnceWitness ==
    /\ algo.op = "foreach"
    /\ algo.pc = "done"
    /\ num_threads > 1
    /\ algo.len > num_threads
    /\ \A e \in 1..algo.len : algo.applied[e] = 1

\* ----------------------------------------------------------------- C14
\* reduceFn is associative on a sample of its values.
Associative(rfn) ==
    LET S == IF rfn = "concat" THEN {<<>>, <<1>>, <<2>>} ELSE {0, 1, 2}
    IN  \A a \in S, b \in S, c \in S :
            Reduce(rfn, Reduce(rfn, a, b), c) = Reduce(rfn, a, Reduce(rfn, b, c))

\* The sequential left fold over the whole range.
LeftFold == Fold(algo.rfn, algo.init, 1, algo.len)

\* C14 as stated: TransformReduce returns the sequential left fold for every
\* reduceFn, the non-associative ones included.
ReduceIsLeftFold ==
    (algo.op = "reduce" /\ algo.pc = "done") => algo.result = LeftFold

\* C14: TransformReduce returns the sequential left fold for every range
\* length, worker count and completion order when reduceFn is associative
\* (commutative or not).
ReduceIsLeftFoldIfAssociative ==
    (algo.op = "reduce" /\ algo.pc = "done" /\ Associative(algo.rfn)) =>
        algo.result = LeftFold

\* TransformReduce has returned the ordered concatenation of a range longer
\* than the number of workers, from a non-empty init, the last chunk having
\* finished before the first.
ReduceIsLeftFoldIfAssociativeWitness ==
    /\ algo.op = "reduce"
    /\ algo.pc = "done"
    /\ algo.rfn = "concat"
    /\ algo.init # <<>>
    /\ num_threads > 1
    /\ algo.len > num_threads
    /\ algo.result = LeftFold
    /\ algo.firstDone = NChunks

\* ----------------------------------------------------------------- C15
\* The chunks whose task fails.
FailingChunks == {c \in 1..NChunks : FirstFail(c) # 0}

\* C15: a call returns or raises only when every chunk task of the call has
\* run to its end, none being queued or held by a worker; it raises exactly when
\* a chunk failed, and then the failure of the lowest-indexed failing chunk.
LowestFailingChunkRaised ==
    (algo.op # "none" /\ Returned) =>
        /\ \A c \in 1..NChunks :
              /\ execCount[algo.base + c] = 1
              /\ InQueue(algo.base + c) = 0
              /\ Held(algo.base + c) = 0
        /\ algo.pc = "raised" <=> FailingChunks # {}
        /\ algo.pc = "raised" => algo.raised = Min(FailingChunks)
        /\ algo.pc = "done" => algo.raised = 0

\* The call has raised the failure of the first chunk although a later chunk
\* was the first to fail in time.
LowestFailingChunkRaisedWitness ==
    /\ algo.pc = "raised"
    /\ algo.raised = 1
    /\ algo.firstFailed > 1

\* ----------------------------------------------------------------- C21
\* C21: a task appended by a running task after the termination flag was set
\* is still executed before the destructor returns: a task that is in the
\* queue while the flag is set is eventually executed, no worker exits while
\* the queue is non-empty, the queue is empty once every worker has exited,
\* and when the destructor has returned every submitted task has run once.
LateAppendStillRuns ==
    /\ \A i \in TaskIds : (is_terminated /\ InQueue(i) >= 1) ~> (execCount[i] = 1)
    /\ [][\A w \in Workers : ExitStep(w) => tasks = <<>>]_vars
    /\ []((ctor = "ready" /\ \A w \in Live : wpc[w] = "exited") => tasks = <<>>)
    /\ [](mpc = "done" =>
            /\ tasks = <<>>
            /\ \A i \in Submitted : execCount[i] = 1 /\ Held(i) = 0)

\* The destructor has returned after running an inner task that was not yet
\* in the queue when the flag was set: only the submitting task was queued or
\* held by a worker then.
LateAppendStillRunsWitness ==
    /\ mpc = "done"
    /\ pendingAtStop = 1
    /\ nsub = 2
    /\ kind[1] = "spawn"
    /\ kind[2] = "inner"
    /\ execCount[2] = 1

\* ----------------------------------------------------------------- C22
\* The workers whose task is blocked on the handle of its inner task.
Blocked == {w \in Workers : wpc[w] = "blocked"}

\* C22 as stated: a task that submits to the same pool and then blocks on the
\* inner task eventually completes, for every number of workers.
BlockingTaskCompletes ==
    \A i \in TaskIds : (kind[i] = "block") ~> (execCount[i] = 1)

\* C22: a task that submits to the same pool and then blocks on the inner task
\* eventually completes unless the pool comes to hold as many such tasks as it
\* has workers; the inner submission itself always returns.
BlockingTaskCompletesWithFreeWorker ==
    /\ \A i \in TaskIds :
          (kind[i] = "block") ~>
              (execCount[i] = 1 \/ Cardinality(OfKind("block")) >= num_threads)
    /\ \A i \in TaskIds :
          (kind[i] = "block" /\ Held(i) >= 1) ~>
              (\/ execCount[i] = 1
               \/ \E w \in Workers : cur[w] = i /\ wpc[w] \in {"blocked", "finishing"})

\* A task is blocked on its inner task while another worker runs that task.
BlockingTaskCompletesWithFreeWorkerWitness ==
    \E w \in Workers, v \in Workers :
        /\ wpc[w] = "blocked"
        /\ wpc[v] = "running"
        /\ cur[v] = inner[cur[w]]
        /\ Cardinality(OfKind("block")) < num_threads

\* Every worker is occupied by a task blocked on an inner task that is still in
\* the queue.
AllWorkersBlocked ==
    /\ ctor = "ready"
    /\ Blocked = Live
    /\ \A w \in Live : InQueue(inner[cur[w]]) = 1
====
